---- MODULE Spec2Model ----
(***************************************************************************)
(* A model of the user-scoped entity store (DatabaseStorage), the request  *)
(* handlers that call it (registerRoutes) and the table schema they share. *)
(*                                                                         *)
(* A table is a function from a physical row identity (never visible to    *)
(* the program) to the row's columns, so that a row can be followed across *)
(* an UPDATE that rewrites its id column.  The users table is a set of     *)
(* rows.  JSON values of request bodies carry their JSON type, so that the *)
(* schema's type checks are computed, not assumed.                         *)
(***************************************************************************)
EXTENDS Integers, FiniteSets, Sequences, TLC

VARIABLES
  db,       \* the tables: users, todos, scheduleItems, assignments, quickTasks
  serial,   \* the number of rows the entity tables have been given so far
  now,      \* the clock's reading
  res,      \* the response to the last request: its status and its body
  usedIds,  \* history: per entity kind, every id a row of the table has had
  seeded,   \* history: per user, the number of seedUserData calls that passed
            \* the guard and went on to insert the defaults
  calls,    \* the user-identity requests in flight: where each one awaits
  sched,    \* history: the call that ran last, and the number of times a call
            \* ran while another, in flight, had run last
  failed    \* history: the users a seedUserData call of whom has thrown

vars == <<db, serial, now, res, usedIds, seeded, calls, sched, failed>>

(***************************************************************************)
(* Bounds of the model.                                                    *)
(***************************************************************************)
\* rows the four entity tables may have been given in total (CRUD specification)
MaxSerial == 2
\* rows the tables may have been given in total (partial-update specification)
MaxPatchSerial == 2
\* readings the clock can take after the initial one
MaxNow == 1
\* rows the tables may have been given in total (seeding specification):
\* two seedings and the todos created on request
MaxSeedSerial == 69
\* todos created on request, before any seeding (seeding specification)
MaxSeedPosts == 1
\* rows the four entity tables may have been given in total (creation specification)
MaxCreateSerial == 2
\* times a user-identity request runs while another one, in flight, ran last
MaxSwitches == 2
\* seedings of one user after which the user sends no further user-identity
\* request (failing-storage specification)
MaxFailSeeded == 2

(***************************************************************************)
(* The authenticated identities (req.user.claims.sub) and a user id that   *)
(* no row of the users table ever carries.                                 *)
(***************************************************************************)
Users == {"A", "B"}
NoSuchUser == "nobody"

Kinds == {"todos", "scheduleItems", "assignments", "quickTasks"}

(***************************************************************************)
(* JSON values.                                                            *)
(***************************************************************************)
Str(s) == [t |-> "string", v |-> s]
Num(n) == [t |-> "number", v |-> n]
Bool(b) == [t |-> "boolean", v |-> b]

\* the value a handler or the store returns for "no such row"
undefined == [undefined |-> TRUE]

\* the value of a nullable column that was given none
null == "null"

(***************************************************************************)
(* shared/schema.ts: the columns of each table besides id, their types,    *)
(* the NOT NULL columns that have no default, and the column defaults.     *)
(***************************************************************************)
Columns(k) ==
  CASE k = "todos" -> {"userId", "title", "completed", "dayOfWeek", "category", "priority"}
    [] k = "scheduleItems" -> {"userId", "title", "time", "dayOfWeek", "category", "completed"}
    [] k = "assignments" -> {"userId", "title", "dueDate", "completed", "category"}
    [] k = "quickTasks" -> {"userId", "title", "completed", "priority"}

ColType(c) ==
  CASE c = "completed" -> "boolean"
    [] c = "dayOfWeek" -> "number"
    [] OTHER -> "string"

HasDefault(k, c) == c \in (Columns(k) \cap {"completed", "category", "priority"})

\* a schema whose priority column defaults to "low"
Default_low(c) ==
  CASE c = "completed" -> FALSE
    [] c = "category" -> "other"
    [] c = "priority" -> "low"

Default(c) ==
  CASE c = "completed" -> FALSE
    [] c = "category" -> "other"
    [] c = "priority" -> "medium"

Required(k) == {c \in Columns(k) : ~HasDefault(k, c)}

\* the default evaluated once, every row given the same id
gen_random_uuid_once(n) == ToString(1)

\* id varchar primary key default gen_random_uuid(): a value no row was ever
\* given; n is the number of values generated so far
gen_random_uuid(n) == ToString(n + 1)

\* a schema that checks the presence of the required keys, not their types
safeParse_untyped(k, input) ==
  LET keys == DOMAIN input \cap Columns(k)
  IN [success |-> Required(k) \subseteq DOMAIN input,
      data |-> [c \in keys |-> input[c].v]]

(***************************************************************************)
(* createInsertSchema(table).omit({ id: true }).safeParse(input): every    *)
(* required key present, every schema key that is present of the column's  *)
(* type; keys outside the schema (id among them) are stripped.             *)
(***************************************************************************)
safeParse(k, input) ==
  LET keys == DOMAIN input \cap Columns(k)
      ok == /\ Required(k) \subseteq DOMAIN input
            /\ \A c \in keys : input[c].t = ColType(c)
  IN [success |-> ok, data |-> [c \in keys |-> input[c].v]]

\* { userId, ...req.body }: the body's userId wins
withUserId_bodyLast(body, userId) ==
  [c \in DOMAIN body \cup {"userId"} |-> IF c \in DOMAIN body THEN body[c] ELSE Str(userId)]

\* { ...req.body, userId }
withUserId(body, userId) ==
  [c \in DOMAIN body \cup {"userId"} |-> IF c = "userId" THEN Str(userId) ELSE body[c]]

(***************************************************************************)
(* Constraints of the tables.                                              *)
(***************************************************************************)
UserIds(d) == {u.id : u \in d.users}
Ids(T) == {T[r].id : r \in DOMAIN T}

(***************************************************************************)
(* DatabaseStorage, per entity kind; T is the kind's table.                *)
(***************************************************************************)
\* db.select().from(t).where(eq(t.userId, userId))
getMany(T, userId) == {T[r] : r \in {q \in DOMAIN T : T[q].userId = userId}}

\* a lookup that filters by id only
getOne_byIdOnly(T, id, userId) ==
  LET rows == {r \in DOMAIN T : T[r].id = id}
  IN IF rows = {} THEN undefined ELSE T[CHOOSE r \in rows : TRUE]

\* const [row] = await db.select()...where(and(eq(t.id, id), eq(t.userId, userId)))
getOne(T, id, userId) ==
  LET rows == {r \in DOMAIN T : T[r].id = id /\ T[r].userId = userId}
  IN IF rows = {} THEN undefined ELSE T[CHOOSE r \in rows : TRUE]

\* the row INSERT builds from a creation record: supplied columns as supplied,
\* omitted columns from their default, the id generated
newRow(n, k, record) ==
  [c \in Columns(k) \cup {"id"} |->
     IF c = "id" THEN gen_random_uuid(n)
     ELSE IF c \in DOMAIN record THEN record[c]
     ELSE Default(c)]

\* const [created] = await db.insert(t).values(record).returning()
\* threw: the primary key or the reference to users.id is violated
\* n: the number of rows inserted so far
create(d, n, k, record) ==
  LET row == newRow(n, k, record)
      threw == row.id \in Ids(d[k]) \/ row.userId \notin UserIds(d)
  IN IF threw THEN [threw |-> TRUE, db |-> d, row |-> undefined]
     ELSE [threw |-> FALSE,
           db |-> [d EXCEPT ![k] = [r \in DOMAIN d[k] \cup {n + 1} |->
                                      IF r = n + 1 THEN row ELSE d[k][r]]],
           row |-> row]

\* an update that filters by id only
update_byIdOnly(d, k, id, userId, updates) ==
  LET T == d[k]
      cols == DOMAIN updates \cap (Columns(k) \cup {"id"})
      rows == {r \in DOMAIN T : T[r].id = id}
      set(row) == [c \in DOMAIN row |-> IF c \in cols THEN updates[c].v ELSE row[c]]
      T2 == [r \in DOMAIN T |-> IF r \in rows THEN set(T[r]) ELSE T[r]]
      threw == \/ cols = {}
               \/ \E r \in rows : T2[r].userId \notin UserIds(d)
               \/ \E r \in rows : \E q \in DOMAIN T : q # r /\ T2[q].id = T2[r].id
  IN IF threw THEN [threw |-> TRUE, db |-> d, row |-> undefined]
     ELSE IF rows = {} THEN [threw |-> FALSE, db |-> d, row |-> undefined]
     ELSE [threw |-> FALSE, db |-> [d EXCEPT ![k] = T2],
           row |-> T2[CHOOSE r \in rows : TRUE]]

\* const [updated] = await db.update(t).set(updates).where(and(eq(id), eq(userId))).returning()
\* SET takes the keys of updates that are columns of the table (id included);
\* threw: nothing to set, or the new row violates the primary key or the
\* reference to users.id
update(d, k, id, userId, updates) ==
  LET T == d[k]
      cols == DOMAIN updates \cap (Columns(k) \cup {"id"})
      rows == {r \in DOMAIN T : T[r].id = id /\ T[r].userId = userId}
      set(row) == [c \in DOMAIN row |-> IF c \in cols THEN updates[c].v ELSE row[c]]
      T2 == [r \in DOMAIN T |-> IF r \in rows THEN set(T[r]) ELSE T[r]]
      threw == \/ cols = {}
               \/ \E r \in rows : T2[r].userId \notin UserIds(d)
               \/ \E r \in rows : \E q \in DOMAIN T : q # r /\ T2[q].id = T2[r].id
  IN IF threw THEN [threw |-> TRUE, db |-> d, row |-> undefined]
     ELSE IF rows = {} THEN [threw |-> FALSE, db |-> d, row |-> undefined]
     ELSE [threw |-> FALSE, db |-> [d EXCEPT ![k] = T2],
           row |-> T2[CHOOSE r \in rows : TRUE]]

\* a delete that filters by id only
delete_byIdOnly(d, k, id, userId) ==
  LET T == d[k]
      rows == {r \in DOMAIN T : T[r].id = id}
  IN [db |-> [d EXCEPT ![k] = [r \in DOMAIN T \ rows |-> T[r]]],
      deleted |-> Cardinality(rows) > 0]

\* const result = await db.delete(t).where(and(eq(id), eq(userId))).returning()
\* return result.length > 0
delete(d, k, id, userId) ==
  LET T == d[k]
      rows == {r \in DOMAIN T : T[r].id = id /\ T[r].userId = userId}
  IN [db |-> [d EXCEPT ![k] = [r \in DOMAIN T \ rows |-> T[r]]],
      deleted |-> Cardinality(rows) > 0]

(***************************************************************************)
(* DatabaseStorage, users.  userData gives id and any of the other columns *)
(* of a user; t is the clock's reading.                                    *)
(***************************************************************************)
UserColumns == {"email", "firstName", "lastName", "profileImageUrl"}

\* const [user] = await db.select().from(users).where(eq(users.id, id))
getUser(d, id) ==
  LET rows == {u \in d.users : u.id = id}
  IN IF rows = {} THEN undefined ELSE CHOOSE u \in rows : TRUE

\* an upsert whose conflict branch leaves updatedAt alone
upsertUser_stale(d, userData, t) ==
  LET existing == {u \in d.users : u.id = userData.id}
      inserted == [c \in UserColumns \cup {"id", "createdAt", "updatedAt"} |->
                     IF c \in {"createdAt", "updatedAt"} THEN t
                     ELSE IF c \in DOMAIN userData THEN userData[c]
                     ELSE null]
      updated(u) == [c \in DOMAIN u |->
                       IF c \in DOMAIN userData THEN userData[c] ELSE u[c]]
      user == IF existing = {} THEN inserted
              ELSE updated(CHOOSE u \in existing : TRUE)
      threw == /\ user.email # null
               /\ \E u \in d.users \ existing : u.email = user.email
  IN IF threw THEN [threw |-> TRUE, db |-> d, user |-> undefined]
     ELSE [threw |-> FALSE,
           db |-> [d EXCEPT !.users = (d.users \ existing) \cup {user}],
           user |-> user]

\* db.insert(users).values(userData)
\*   .onConflictDoUpdate({ target: users.id, set: { ...userData, updatedAt: new Date() } })
\* a column userData leaves undefined is null on insert (the timestamps: now)
\* and is left alone on conflict; threw: the email is another row's email
upsertUser(d, userData, t) ==
  LET existing == {u \in d.users : u.id = userData.id}
      inserted == [c \in UserColumns \cup {"id", "createdAt", "updatedAt"} |->
                     IF c \in {"createdAt", "updatedAt"} THEN t
                     ELSE IF c \in DOMAIN userData THEN userData[c]
                     ELSE null]
      updated(u) == [c \in DOMAIN u |->
                       IF c = "updatedAt" THEN t
                       ELSE IF c \in DOMAIN userData THEN userData[c]
                       ELSE u[c]]
      user == IF existing = {} THEN inserted
              ELSE updated(CHOOSE u \in existing : TRUE)
      threw == /\ user.email # null
               /\ \E u \in d.users \ existing : u.email = user.email
  IN IF threw THEN [threw |-> TRUE, db |-> d, user |-> undefined]
     ELSE [threw |-> FALSE,
           db |-> [d EXCEPT !.users = (d.users \ existing) \cup {user}],
           user |-> user]

(***************************************************************************)
(* DatabaseStorage.seedUserData.                                           *)
(***************************************************************************)
todo(title, completed, category, priority) ==
  [title |-> title, completed |-> completed, dayOfWeek |-> 1,
   category |-> category, priority |-> priority]

defaultTodos ==
  << todo("Wake up at 6:30AM", FALSE, "daily", "high"),
     todo("Morning Routine", FALSE, "daily", "medium"),
     todo("Pack Bag", TRUE, "daily", "medium"),
     todo("Check Planner", FALSE, "daily", "medium"),
     todo("Attend Classes", FALSE, "daily", "high"),
     todo("Take Notes", FALSE, "daily", "medium"),
     todo("Lunch", FALSE, "daily", "low"),
     todo("Homework", FALSE, "daily", "high"),
     todo("Complete Math Worksheets", FALSE, "monthly", "high"),
     todo("Study for Midterms", FALSE, "monthly", "high"),
     todo("Work on English Essay", FALSE, "monthly", "medium") >>

item(title, time, dayOfWeek, category, completed) ==
  [title |-> title, time |-> time, dayOfWeek |-> dayOfWeek,
   category |-> category, completed |-> completed]

defaultSchedule ==
  << item("Science", "7:30", 1, "science", FALSE),
     item("Math", "9:55", 1, "math", TRUE),
     item("Break", "11:00", 1, "break", TRUE),
     item("Social", "11:55", 1, "social", FALSE),
     item("Music", "12:50", 1, "music", FALSE),
     item("Free time", "7:30", 2, "free", FALSE),
     item("PE", "9:55", 2, "pe", FALSE),
     item("Break", "11:00", 2, "break", FALSE),
     item("Biology", "11:55", 2, "biology", FALSE),
     item("English", "12:50", 2, "english", FALSE),
     item("Biology", "7:30", 3, "biology", FALSE),
     item("Social", "9:55", 3, "social", FALSE),
     item("Break", "11:00", 3, "break", FALSE),
     item("PE", "11:55", 3, "pe", FALSE),
     item("Math", "12:50", 3, "math", FALSE),
     item("Science", "7:30", 4, "science", FALSE),
     item("Math", "9:55", 4, "math", FALSE),
     item("Break", "11:00", 4, "break", FALSE),
     item("Social", "11:55", 4, "social", FALSE),
     item("Biology", "12:50", 4, "biology", FALSE) >>

\* the date of the clock's reading t is t days after the 1st of January 2026
pad2(n) == IF n < 10 THEN "0" \o ToString(n) ELSE ToString(n)

monthDays == <<31, 28, 31, 30, 31, 30, 31, 31, 30, 31, 30, 31>>

RECURSIVE monthOf(_, _)
monthOf(dayOfYear, m) ==
  IF dayOfYear < monthDays[m] THEN <<m, dayOfYear + 1>>
  ELSE monthOf(dayOfYear - monthDays[m], m + 1)

\* `${date.getFullYear()}-${month padded to 2}-${day padded to 2}` of today + daysFromNow
getDateString(today, daysFromNow) ==
  LET md == monthOf(today + daysFromNow, 1)
  IN "2026-" \o pad2(md[1]) \o "-" \o pad2(md[2])

defaultAssignments(today) ==
  << [title |-> "Math Homework", dueDate |-> getDateString(today, 5),
      completed |-> FALSE, category |-> "math"],
     [title |-> "Science Project", dueDate |-> getDateString(today, 10),
      completed |-> FALSE, category |-> "science"],
     [title |-> "English Essay", dueDate |-> getDateString(today, 3),
      completed |-> FALSE, category |-> "english"] >>

\* { ...record, userId }
owned(record, userId) ==
  [c \in DOMAIN record \cup {"userId"} |-> IF c = "userId" THEN userId ELSE record[c]]

\* for (const r of records) await this.create({ ...r, userId })
\* s: [db, serial, threw] so far; a create that throws ends the loop
RECURSIVE createEach(_, _, _, _)
createEach(s, k, records, userId) ==
  IF records = <<>> \/ s.threw THEN s
  ELSE LET c == create(s.db, s.serial, k, owned(Head(records), userId))
       IN createEach([db |-> c.db,
                      serial |-> IF c.threw THEN s.serial ELSE s.serial + 1,
                      threw |-> c.threw],
                     k, Tail(records), userId)

\* a seeding without its guard
seedGuard_none(d, userId) == FALSE

\* a guard that reads the schedule items instead of the todos
seedGuard_schedule(d, userId) == Cardinality(getMany(d.scheduleItems, userId)) > 0

\* a guard that also sees a seeding of the user in flight
seedGuard_inflight(d, userId) ==
  \/ Cardinality(getMany(d.todos, userId)) > 0
  \/ \E c \in DOMAIN calls : calls[c].pc = "create" /\ calls[c].userId = userId

\* if (existingTodos.length > 0) return
seedGuard(d, userId) == Cardinality(getMany(d.todos, userId)) > 0

seedUserData(d, n, userId, today) ==
  LET s0 == [db |-> d, serial |-> n, threw |-> FALSE]
      s1 == createEach(s0, "todos", defaultTodos, userId)
      s2 == createEach(s1, "scheduleItems", defaultSchedule, userId)
      s3 == createEach(s2, "assignments", defaultAssignments(today), userId)
  IN IF seedGuard(d, userId) THEN s0 ELSE s3

(***************************************************************************)
(* The user-identity requests in flight.  A request awaits the store four  *)
(* times over: getUser, getTodos, and one create per default; between two  *)
(* awaits of one request the store serves the others.                      *)
(***************************************************************************)
Calls == {1, 2}

\* no request in the slot
Idle == [pc |-> "idle", userId |-> NoSuchUser, user |-> undefined, i |-> 0, today |-> 0]

\* the number of creates of a complete seedUserData
SeedLength == Len(defaultTodos) + Len(defaultSchedule) + Len(defaultAssignments(0))

\* the table of the i-th create of seedUserData
kindAt(i) ==
  IF i <= Len(defaultTodos) THEN "todos"
  ELSE IF i <= Len(defaultTodos) + Len(defaultSchedule) THEN "scheduleItems"
  ELSE "assignments"

\* the record of the i-th create of seedUserData
recordAt(i, today) ==
  IF i <= Len(defaultTodos) THEN defaultTodos[i]
  ELSE IF i <= Len(defaultTodos) + Len(defaultSchedule)
       THEN defaultSchedule[i - Len(defaultTodos)]
  ELSE defaultAssignments(today)[i - Len(defaultTodos) - Len(defaultSchedule)]

(***************************************************************************)
(* The state after construction: empty tables, the clock at its first      *)
(* reading, no response sent.                                              *)
(***************************************************************************)
Init ==
  /\ db = [users |-> {}, todos |-> <<>>, scheduleItems |-> <<>>,
           assignments |-> <<>>, quickTasks |-> <<>>]
  /\ serial = 0
  /\ now = 0
  /\ res = [status |-> 0, body |-> undefined]
  /\ usedIds = [k \in Kinds |-> {}]
  /\ seeded = [u \in Users |-> 0]
  /\ calls = [c \in Calls |-> Idle]
  /\ sched = [last |-> 1, switches |-> 0]
  /\ failed = {}

\* one step of the program: the new tables, generated-id count, clock and
\* response; usedIds collects every id a table has ever held
Commit(d, n, t, r) ==
  /\ db' = d
  /\ serial' = n
  /\ now' = t
  /\ res' = r
  /\ usedIds' = [k \in Kinds |-> usedIds[k] \cup Ids(d[k])]
  /\ UNCHANGED <<calls, sched, failed>>

\* replitAuth's isAuthenticated: the session of a user whose row upsertUser
\* wrote at login
isAuthenticated(userId) == userId \in UserIds(db)

\* res.status(code).json(body)
json(code, body) == [status |-> code, body |-> body]

\* what a handler leaves behind: the tables, the number of generated ids and
\* the response
done(d, n, r) == [db |-> d, serial |-> n, res |-> r]

\* app.get('/api/auth/user')
getAuthUser(d, n, userId, today) ==
  LET user == getUser(d, userId)
      out == seedUserData(d, n, userId, today)
  IN IF out.threw
     THEN done(out.db, out.serial, json(500, [message |-> "Failed to fetch user"]))
     ELSE done(out.db, out.serial, json(200, user))

\* app.get("/api/todos"), "/api/schedule", "/api/assignments", "/api/quick-tasks"
getList(d, n, k, userId) == done(d, n, json(200, [rows |-> getMany(d[k], userId)]))

\* app.post: validate { ...req.body, userId }, then create
post(d, n, k, userId, body) ==
  LET parsed == safeParse(k, withUserId(body, userId))
      out == create(d, n, k, parsed.data)
  IN IF ~parsed.success THEN done(d, n, json(400, [error |-> "invalid"]))
     ELSE IF out.threw THEN done(d, n, json(500, [error |-> "Failed to create"]))
     ELSE done(out.db, n + 1, json(201, out.row))

\* app.patch: updates = req.body, unvalidated
patch(d, n, k, userId, id, body) ==
  LET out == update(d, k, id, userId, body)
  IN IF out.threw THEN done(d, n, json(500, [error |-> "Failed to update"]))
     ELSE IF out.row = undefined THEN done(d, n, json(404, [error |-> "not found"]))
     ELSE done(out.db, n, json(200, out.row))

\* app.delete
remove(d, n, k, userId, id) ==
  LET out == delete(d, k, id, userId)
  IN IF ~out.deleted THEN done(d, n, json(404, [error |-> "not found"]))
     ELSE done(out.db, n, json(204, undefined))

(***************************************************************************)
(* The steps of the program: a call of upsertUser by the authentication    *)
(* collaborator, or one request handled from its arrival to its response.  *)
(***************************************************************************)
\* storage.upsertUser, the clock having advanced by dt since the previous call
UpsertUser(userData, dt) ==
  /\ now + dt <= MaxNow
  /\ LET out == upsertUser(db, userData, now + dt)
     IN Commit(out.db, serial, now + dt,
               IF out.threw THEN json(500, [message |-> "Internal Server Error"])
               ELSE json(0, out.user))
  /\ UNCHANGED seeded

Handled(out) == Commit(out.db, out.serial, now, out.res)

GetAuthUser(userId) ==
  /\ isAuthenticated(userId)
  /\ LET out == getAuthUser(db, serial, userId, now)
     IN /\ out.serial <= MaxSeedSerial
        /\ Handled(out)
        /\ seeded' = [seeded EXCEPT ![userId] = IF out.db # db THEN @ + 1 ELSE @]

List(k, userId) ==
  /\ isAuthenticated(userId)
  /\ Handled(getList(db, serial, k, userId))
  /\ UNCHANGED seeded

Post(k, userId, body) ==
  /\ isAuthenticated(userId)
  /\ Handled(post(db, serial, k, userId, body))
  /\ UNCHANGED seeded

Patch(k, userId, id, body) ==
  /\ isAuthenticated(userId)
  /\ Handled(patch(db, serial, k, userId, id, body))
  /\ UNCHANGED seeded

Delete(k, userId, id) ==
  /\ isAuthenticated(userId)
  /\ Handled(remove(db, serial, k, userId, id))
  /\ UNCHANGED seeded

(***************************************************************************)
(* GET /api/auth/user, one await at a time.                                *)
(***************************************************************************)
\* call c runs while another call, in flight, ran last
Preempts(c) == sched.last # c /\ calls[sched.last].pc # "idle"

\* the store has served the statement call c awaited: the tables and the
\* number of generated ids after it, the response if the handler has sent
\* one, and where the call stands next
Resume(c, d, n, r, call) ==
  /\ Preempts(c) => sched.switches < MaxSwitches
  /\ db' = d
  /\ serial' = n
  /\ now' = now
  /\ res' = r
  /\ usedIds' = [k \in Kinds |-> usedIds[k] \cup Ids(d[k])]
  /\ calls' = [calls EXCEPT ![c] = call]
  /\ sched' = [last |-> c,
               switches |-> IF Preempts(c) THEN sched.switches + 1 ELSE sched.switches]

\* a request arrives and takes the first free slot:
\* const user = await storage.getUser(userId)
AwaitGetUser(c, userId) ==
  /\ isAuthenticated(userId)
  /\ calls[c].pc = "idle"
  /\ \A b \in Calls : b < c => calls[b].pc # "idle"
  /\ Resume(c, db, serial, res,
            [pc |-> "getTodos", userId |-> userId, user |-> getUser(db, userId),
             i |-> 0, today |-> 0])
  /\ UNCHANGED <<seeded, failed>>

\* const existingTodos = await this.getTodos(userId)
\* if (existingTodos.length > 0) return, and the handler answers
AwaitGetTodos(c) ==
  LET call == calls[c]
  IN /\ call.pc = "getTodos"
     /\ IF seedGuard(db, call.userId)
        THEN /\ Resume(c, db, serial, json(200, call.user), Idle)
             /\ UNCHANGED seeded
        ELSE /\ Resume(c, db, serial, res, [call EXCEPT !.pc = "create"])
             /\ seeded' = [seeded EXCEPT ![call.userId] = @ + 1]
     /\ UNCHANGED failed

\* a seeding inside a transaction: a create that throws takes the rows the
\* call has inserted with it
AwaitCreate_rollback(c, fails) ==
  LET call == calls[c]
      i == call.i + 1
      today == IF i = Len(defaultTodos) + Len(defaultSchedule) + 1 THEN now ELSE call.today
      out == create(db, serial, kindAt(i), owned(recordAt(i, today), call.userId))
      others(T) == [r \in {q \in DOMAIN T : T[q].userId # call.userId} |-> T[r]]
      before == [db EXCEPT !.todos = others(@), !.scheduleItems = others(@),
                           !.assignments = others(@)]
  IN /\ call.pc = "create"
     /\ IF fails \/ out.threw
        THEN /\ Resume(c, before, serial, json(500, [message |-> "Failed to fetch user"]), Idle)
             /\ failed' = failed \cup {call.userId}
        ELSE /\ IF i = SeedLength
                THEN Resume(c, out.db, serial + 1, json(200, call.user), Idle)
                ELSE Resume(c, out.db, serial + 1, res,
                            [call EXCEPT !.i = i, !.today = today])
             /\ UNCHANGED failed
     /\ UNCHANGED seeded

\* await this.createTodo / createScheduleItem / createAssignment of the next
\* default; today is read before the first assignment.  fails: the store
\* rejects the statement, the await throws and the handler answers 500
AwaitCreate(c, fails) ==
  LET call == calls[c]
      i == call.i + 1
      today == IF i = Len(defaultTodos) + Len(defaultSchedule) + 1 THEN now ELSE call.today
      out == create(db, serial, kindAt(i), owned(recordAt(i, today), call.userId))
  IN /\ call.pc = "create"
     /\ IF fails \/ out.threw
        THEN /\ Resume(c, db, serial, json(500, [message |-> "Failed to fetch user"]), Idle)
             /\ failed' = failed \cup {call.userId}
        ELSE /\ IF i = SeedLength
                THEN Resume(c, out.db, serial + 1, json(200, call.user), Idle)
                ELSE Resume(c, out.db, serial + 1, res,
                            [call EXCEPT !.i = i, !.today = today])
             /\ UNCHANGED failed
     /\ UNCHANGED seeded

(***************************************************************************)
(* The requests of the model.                                              *)
(***************************************************************************)
\* the claims the identity provider gives for a user
Claims(u) == [id |-> u, firstName |-> u]

\* a body with every required field of the kind
minimal(k) ==
  [c \in Required(k) \ {"userId"} |->
     CASE c = "title" -> Str("Read")
       [] c = "dayOfWeek" -> Num(1)
       [] c = "time" -> Str("7:30")
       [] c = "dueDate" -> Str("2026-01-09")]

with(body, c, v) == [x \in DOMAIN body \cup {c} |-> IF x = c THEN v ELSE body[x]]

without(body, c) == [x \in DOMAIN body \ {c} |-> body[x]]

\* creation bodies: the required fields, the same with another user's id and
\* an id, one without its title, and two with a value of the wrong type
PostBodies(k) ==
  { minimal(k),
    with(with(minimal(k), "userId", Str("B")), "id", Str("1")),
    without(minimal(k), "title"),
    with(minimal(k), "title", Num(7)),
    with(minimal(k), "completed", Str("yes")) }

\* the ids a client can name: every id generated so far and one that never was
ClientIds == {ToString(i) : i \in 1..serial} \cup {"x"}

\* partial updates: columns with values of their type, the id, the owner,
\* nothing, and a key that is no column
PatchBodies ==
  { [title |-> Str("Renamed"), completed |-> Bool(TRUE)],
    [id |-> Str("x")],
    <<>>,
    [extra |-> Num(1)] }
  \cup {[userId |-> Str(u)] : u \in Users \cup {NoSuchUser}}

Login == \E u \in Users : UpsertUser(Claims(u), 0)

(***************************************************************************)
(* Specification Spec: login, list, create and delete requests.            *)
(***************************************************************************)
Next ==
  \/ Login
  \/ \E k \in Kinds, u \in Users : List(k, u)
  \/ \E k \in Kinds, u \in Users : \E body \in PostBodies(k) :
        serial < MaxSerial /\ Post(k, u, body)
  \/ \E k \in Kinds, u \in Users, id \in ClientIds : Delete(k, u, id)

Spec == Init /\ [][Next]_vars

(***************************************************************************)
(* Specification SpecPatch: login, create and partial-update requests.     *)
(***************************************************************************)
\* the kinds its requests are about
PatchKinds == {"todos", "scheduleItems"}

NextPatch ==
  \/ Login
  \/ \E k \in PatchKinds, u \in Users :
        serial < MaxPatchSerial /\ Post(k, u, minimal(k))
  \/ \E k \in PatchKinds, u \in Users, id \in ClientIds : \E body \in PatchBodies :
        Patch(k, u, id, body)

SpecPatch == Init /\ [][NextPatch]_vars

(***************************************************************************)
(* Specification SpecUsers: upsertUser with any user data, the clock       *)
(* advancing or not between two calls.                                     *)
(***************************************************************************)
UserValues(c) ==
  CASE c = "email" -> {"a@x"}
    [] c = "firstName" -> {"Ann", "Bea"}
    [] c = "lastName" -> {"Lee"}
    [] c = "profileImageUrl" -> {"img"}

\* the records that give an id and a value to some of the other columns
UserDatas ==
  UNION { { ud \in [S \cup {"id"} -> Users \cup UNION {UserValues(c) : c \in S}] :
              /\ ud.id \in Users
              /\ \A c \in S : ud[c] \in UserValues(c) } :
          S \in SUBSET UserColumns }

NextUsers == \E userData \in UserDatas, dt \in {0, 1} : UpsertUser(userData, dt)

SpecUsers == Init /\ [][NextUsers]_vars

(***************************************************************************)
(* Specification SpecSeed: login, the user-identity endpoint, and create,  *)
(* update and delete requests on the caller's todos (the oldest of them).  *)
(***************************************************************************)
\* the id of the first todo the user was given that is still there
OldestTodo(userId) ==
  LET mine == {r \in DOMAIN db.todos : db.todos[r].userId = userId}
  IN db.todos[CHOOSE r \in mine : \A q \in mine : r <= q].id

HasTodos(userId) == \E r \in DOMAIN db.todos : db.todos[r].userId = userId

NextSeed ==
  \/ Login
  \/ \E u \in Users : GetAuthUser(u)
  \/ \E u \in Users : List("todos", u)
  \/ \E u \in Users : serial < MaxSeedPosts /\ Post("todos", u, minimal("todos"))
  \/ \E u \in Users : HasTodos(u) /\ Patch("todos", u, OldestTodo(u), [completed |-> Bool(TRUE)])
  \/ \E u \in Users : HasTodos(u) /\ Delete("todos", u, OldestTodo(u))

SpecSeed == Init /\ [][NextSeed]_vars

(***************************************************************************)
(* Specification SpecCreate: login and create requests whose bodies give   *)
(* the required fields and any of the optional ones.                       *)
(***************************************************************************)
\* a value a client gives to an optional field, none of them the default
Supplied(c) ==
  CASE c = "completed" -> Bool(TRUE)
    [] c = "category" -> Str("math")
    [] c = "priority" -> Str("high")

Optional(k) == {c \in Columns(k) : HasDefault(k, c)}

\* the required fields and a value for each optional field of S
supplying(k, S) ==
  [c \in DOMAIN minimal(k) \cup S |-> IF c \in S THEN Supplied(c) ELSE minimal(k)[c]]

\* none of the optional fields, one of them, or all of them
CreateBodies(k) ==
  {supplying(k, S) : S \in {{}, Optional(k)} \cup {{c} : c \in Optional(k)}}

NextCreate ==
  \/ Login
  \/ \E k \in Kinds, u \in Users : \E body \in CreateBodies(k) :
        serial < MaxCreateSerial /\ Post(k, u, body)

SpecCreate == Init /\ [][NextCreate]_vars

(***************************************************************************)
(* Specification SpecRace: login and user-identity requests of one user,   *)
(* two of them in flight at a time, on a store that serves every statement.*)
(***************************************************************************)
\* the user whose requests race
Racer == "A"

NextRace ==
  \/ Login
  \/ \E c \in Calls : AwaitGetUser(c, Racer)
  \/ \E c \in Calls : AwaitGetTodos(c)
  \/ \E c \in Calls : AwaitCreate(c, FALSE)

SpecRace == Init /\ [][NextRace]_vars

(***************************************************************************)
(* Specification SpecFail: login, and user-identity requests one at a time *)
(* on a store that may reject any create.                                  *)
(***************************************************************************)
NextFail ==
  \/ Login
  \/ \E u \in Users : seeded[u] < MaxFailSeeded /\ AwaitGetUser(1, u)
  \/ AwaitGetTodos(1)
  \/ \E fails \in BOOLEAN : AwaitCreate(1, fails)

SpecFail == Init /\ [][NextFail]_vars

(***************************************************************************)
(* Properties.  Those about one operation are stated of the operation's    *)
(* result in every reachable state, for every request of the model.        *)
(***************************************************************************)
\* the rows of table T that a scoped operation on (id, userId) addresses
Matching(T, id, userId) == {r \in DOMAIN T : T[r].id = id /\ T[r].userId = userId}

\* the users that can send requests
Authenticated == {u \in Users : isAuthenticated(u)}

\* C1: in every reachable state and for every entity kind, a lookup of an
\* existing entity's id by any user other than the entity's owner reports
\* absence.
C1_CrossUserLookupAbsent ==
  \A k \in Kinds : \A r \in DOMAIN db[k] :
    \A B \in (Users \cup {NoSuchUser}) \ {db[k][r].userId} :
      getOne(db[k], db[k][r].id, B) = undefined

\* a table holds a row of user A and a row of user B
C1_Witness ==
  \E k \in Kinds : \E r, q \in DOMAIN db[k] :
    /\ db[k][r].userId = "A"
    /\ db[k][q].userId = "B"

\* C2: a create request by authenticated user u, whatever its body holds
\* (a userId naming another user included), passes the store a record whose
\* userId is u, and the entity created and returned is owned by u: no other
\* user's entities change.
C2_CreateOwnedByCaller ==
  \A k \in Kinds, u \in Authenticated : \A body \in PostBodies(k) :
    LET out == post(db, serial, k, u, body)
    IN /\ safeParse(k, withUserId(body, u)).data.userId = u
       /\ out.res.status = 201 =>
            /\ out.res.body.userId = u
            /\ \A r \in DOMAIN out.db[k] \ DOMAIN db[k] : out.db[k][r].userId = u
            /\ \A v \in Users \ {u} : getMany(out.db[k], v) = getMany(db[k], v)

\* user A has just created an entity while user B is known too
C2_Witness ==
  /\ res.status = 201
  /\ res.body.userId = "A"
  /\ "B" \in UserIds(db)

\* C3: no step changes the id or the owner of a row that survives it.
C3_IdAndOwnerImmutable ==
  [][\A k \in Kinds : \A r \in DOMAIN db[k] \cap DOMAIN db'[k] :
       /\ db'[k][r].id = db[k][r].id
       /\ db'[k][r].userId = db[k][r].userId]_vars

\* C4: an update that returns a row has changed, in the one row that matches
\* both id and userId, exactly the columns the updates supply, and has left
\* every other column, row and table as it was; an update that matches no
\* row (unknown id or another user's row) returns absence and changes
\* nothing; an update the store rejects changes nothing either.
C4_UpdateFrame ==
  \A k \in PatchKinds, u \in Authenticated, id \in ClientIds : \A body \in PatchBodies :
    LET rows == Matching(db[k], id, u)
        out == update(db, k, id, u, body)
    IN /\ (rows # {} /\ ~out.threw) =>
             /\ Cardinality(rows) = 1
             /\ DOMAIN out.db[k] = DOMAIN db[k]
             /\ \A r \in rows : \A c \in DOMAIN db[k][r] :
                   out.db[k][r][c] = IF c \in DOMAIN body THEN body[c].v ELSE db[k][r][c]
             /\ \A r \in rows : out.row = out.db[k][r]
             /\ \A r \in DOMAIN db[k] \ rows : out.db[k][r] = db[k][r]
             /\ \A j \in Kinds \ {k} : out.db[j] = db[j]
             /\ out.db.users = db.users
       /\ (rows = {} /\ ~out.threw) => (out.row = undefined /\ out.db = db)
       /\ out.threw => out.db = db

\* an update has returned the renamed row, another row of the table untouched
C4_Witness ==
  /\ res.status = 200
  /\ res.body.title = "Renamed"
  /\ \E k \in PatchKinds : \E r, q \in DOMAIN db[k] :
        r # q /\ db[k][r] = res.body /\ db[k][q].title = "Read"

\* C5: a create returns an entity whose id no entity of that kind has had
\* before (deleted ones included), and a lookup of that id by the record's
\* user right afterwards returns the entity create returned.
C5_CreateFreshAndReadable ==
  \A k \in Kinds, u \in Authenticated : \A body \in PostBodies(k) :
    LET record == safeParse(k, withUserId(body, u))
        out == create(db, serial, k, record.data)
    IN (record.success /\ ~out.threw) =>
         /\ out.row.id \notin usedIds[k]
         /\ getOne(out.db[k], out.row.id, record.data.userId) = out.row

\* an entity has just been created in a table an entity was deleted from
C5_Witness ==
  /\ res.status = 201
  /\ \E k \in Kinds :
        /\ res.body.id \in Ids(db[k])
        /\ usedIds[k] \ Ids(db[k]) # {}

\* C6: a delete returns true exactly when a row matched both its id and its
\* user; it then has removed exactly that row, and otherwise nothing; the
\* same delete again returns false.  The handler answers 204 for true and
\* 404 for false.
C6_DeleteOnce ==
  \A k \in Kinds, u \in Authenticated, id \in ClientIds :
    LET rows == Matching(db[k], id, u)
        out == delete(db, k, id, u)
    IN /\ out.deleted <=> (rows # {})
       /\ out.deleted =>
            /\ Cardinality(rows) = 1
            /\ DOMAIN out.db[k] = DOMAIN db[k] \ rows
            /\ \A r \in DOMAIN out.db[k] : out.db[k][r] = db[k][r]
            /\ \A j \in Kinds \ {k} : out.db[j] = db[j]
            /\ out.db.users = db.users
       /\ ~out.deleted => out.db = db
       /\ ~delete(out.db, k, id, u).deleted
       /\ remove(db, serial, k, u, id).res.status = IF out.deleted THEN 204 ELSE 404

\* a delete has succeeded on a table that still holds a row
C6_Witness ==
  /\ res.status = 204
  /\ \E k \in Kinds : usedIds[k] \ Ids(db[k]) # {} /\ DOMAIN db[k] # {}

\* a body that lacks a required field or gives a field a value of another type
Invalid(k, body) ==
  \/ \E c \in Required(k) \ {"userId"} : c \notin DOMAIN body
  \/ \E c \in DOMAIN body \cap (Columns(k) \ {"userId"}) : body[c].t # ColType(c)

\* C10: a create request whose body fails validation is answered 400 and
\* leaves every table, and the count of generated ids, as they were.
C10_InvalidCreateTouchesNothing ==
  \A k \in Kinds, u \in Authenticated : \A body \in PostBodies(k) :
    Invalid(k, body) =>
      LET out == post(db, serial, k, u, body)
      IN out.res.status = 400 /\ out.db = db /\ out.serial = serial

\* a create request has been rejected while the tables hold rows
C10_Witness ==
  /\ res.status = 400
  /\ \E k \in Kinds : DOMAIN db[k] # {}

\* the rows of the users table with the given id
UserRows(d, id) == {u \in d.users : u.id = id}

\* the three kinds seeding fills, and how many defaults each gets
SeedCount(k) ==
  CASE k = "todos" -> Len(defaultTodos)
    [] k = "scheduleItems" -> Len(defaultSchedule)
    [] k = "assignments" -> Len(defaultAssignments(0))
    [] k = "quickTasks" -> 0

\* C7: the user-identity request of a user who owns no todos, schedule items
\* or assignments inserts exactly 11 todos, 20 schedule items and 3
\* assignments, all owned by that user, and changes no existing row; the
\* same request right afterwards inserts nothing.
C7_SeedOnceExactCounts ==
  \A u \in Authenticated :
    (\A k \in Kinds \ {"quickTasks"} : getMany(db[k], u) = {}) =>
      LET out == seedUserData(db, serial, u, now)
          again == seedUserData(out.db, out.serial, u, now)
      IN /\ ~out.threw
         /\ Cardinality(getMany(out.db.todos, u)) = 11
         /\ Cardinality(getMany(out.db.scheduleItems, u)) = 20
         /\ Cardinality(getMany(out.db.assignments, u)) = 3
         /\ \A k \in Kinds :
              /\ Cardinality(DOMAIN out.db[k] \ DOMAIN db[k]) = SeedCount(k)
              /\ \A r \in DOMAIN out.db[k] \ DOMAIN db[k] : out.db[k][r].userId = u
              /\ \A r \in DOMAIN db[k] : r \in DOMAIN out.db[k] /\ out.db[k][r] = db[k][r]
         /\ out.db.users = db.users
         /\ out.serial = serial + 34
         /\ again.db = out.db /\ again.serial = out.serial /\ ~again.threw

\* user A has been seeded and still owns exactly the defaults, user B owning
\* a todo as well
C7_Witness ==
  /\ seeded["A"] = 1
  /\ res.status = 200
  /\ Cardinality(getMany(db.todos, "A")) = 11
  /\ Cardinality(getMany(db.scheduleItems, "A")) = 20
  /\ Cardinality(getMany(db.assignments, "A")) = 3
  /\ getMany(db.todos, "B") # {}

\* C8 as claimed: the defaults are inserted for a user at most once.
C8_SeededAtMostOnce == \A u \in Users : seeded[u] <= 1

\* C8: the defaults are inserted for a user only by a request made while the
\* user owns no todo, and a user-identity request made while the user owns a
\* todo inserts nothing: so at most once for as long as the user keeps a
\* todo, and again once the user's todos are all deleted.
C8_SeededOnlyWithoutTodos ==
  [][\A u \in Users :
       /\ seeded'[u] # seeded[u] => (~HasTodos(u) /\ seeded'[u] = seeded[u] + 1)
       /\ (HasTodos(u) /\ isAuthenticated(u)) =>
            getAuthUser(db, serial, u, now).db = db]_vars

\* a user has been given the defaults a second time
C8_Witness == \E u \in Users : seeded[u] = 2

\* C9 as claimed: a second upsertUser with the id of an existing row and
\* other values leaves one row with that id, holding the values of the
\* second call and an updatedAt strictly later than before.
C9_UpdatedAtStrictlyLater ==
  [][\A userData \in UserDatas, dt \in {0, 1} :
       (/\ UpsertUser(userData, dt)
        /\ res'.status = 0
        /\ \E o \in UserRows(db, userData.id) :
             \E c \in DOMAIN userData : userData[c] # o[c]) =>
         /\ Cardinality(UserRows(db', userData.id)) = 1
         /\ \A o \in UserRows(db, userData.id), w \in UserRows(db', userData.id) :
              /\ \A c \in DOMAIN userData : w[c] = userData[c]
              /\ w.updatedAt > o.updatedAt]_vars

\* C9: an upsertUser that returns leaves exactly one row with the id and no
\* other row changed.  If a row had the id, the columns the call supplies
\* have the call's values, the others (createdAt too) keep theirs, and
\* updatedAt is the clock's reading at the call: never earlier than before,
\* and strictly later when the clock has advanced.  If no row had the id,
\* the table has exactly one row more.
C9_UpsertRefreshes ==
  \A userData \in UserDatas, dt \in {0, 1} :
    LET out == upsertUser(db, userData, now + dt)
        old == UserRows(db, userData.id)
        new == UserRows(out.db, userData.id)
    IN ~out.threw =>
         /\ Cardinality(new) = 1
         /\ out.user \in new
         /\ out.db.users \ new = db.users \ old
         /\ \A o \in old, w \in new :
              /\ \A c \in UserColumns :
                   w[c] = IF c \in DOMAIN userData THEN userData[c] ELSE o[c]
              /\ w.createdAt = o.createdAt
              /\ w.updatedAt = now + dt
              /\ w.updatedAt >= o.updatedAt
              /\ dt > 0 => w.updatedAt > o.updatedAt
         /\ old = {} => Cardinality(out.db.users) = Cardinality(db.users) + 1

\* a second call has rewritten a user's row after the clock advanced, the
\* other user's row being there too
C9_Witness ==
  /\ res.status = 0
  /\ Cardinality(db.users) = 2
  /\ \E u \in db.users : u = res.body /\ u.updatedAt > u.createdAt

\* C11: a create request of an authenticated user u whose body gives the
\* required fields and some of the optional ones answers 201 with the row
\* it persisted: the row has a generated id no row of the table has,
\* userId = u, every field of the body as the body gives it, and for every
\* optional field the body omits the schema default: completed = false,
\* category = "other", priority = "medium", in each kind that has the column.
C11_CreateDefaults ==
  \A k \in Kinds, u \in Authenticated : \A body \in CreateBodies(k) :
    LET out == post(db, serial, k, u, body)
        row == out.res.body
    IN /\ out.res.status = 201
       /\ DOMAIN out.db[k] = DOMAIN db[k] \cup {serial + 1}
       /\ out.db[k][serial + 1] = row
       /\ DOMAIN row = Columns(k) \cup {"id"}
       /\ row.id = gen_random_uuid(serial)
       /\ row.id \notin Ids(db[k])
       /\ row.userId = u
       /\ \A c \in DOMAIN body : row[c] = body[c].v
       /\ ("completed" \in Columns(k) \ DOMAIN body) => row.completed = FALSE
       /\ ("category" \in Columns(k) \ DOMAIN body) => row.category = "other"
       /\ ("priority" \in Columns(k) \ DOMAIN body) => row.priority = "medium"

\* user A has a todo created from a title and a dayOfWeek only, holding the
\* three defaults, and the response is a todo of A created with the three
\* optional fields supplied
C11_Witness ==
  /\ res.status = 201
  /\ res.body = [id |-> "2", userId |-> "A", title |-> "Read", dayOfWeek |-> 1,
                 completed |-> TRUE, category |-> "math", priority |-> "high"]
  /\ 2 \in DOMAIN db.todos /\ db.todos[2] = res.body
  /\ 1 \in DOMAIN db.todos
  /\ db.todos[1] = [id |-> "1", userId |-> "A", title |-> "Read", dayOfWeek |-> 1,
                    completed |-> FALSE, category |-> "other", priority |-> "medium"]

\* the creates of kind k among the first i creates of seedUserData
Progress(k, i) ==
  LET first == CASE k = "todos" -> 0
                 [] k = "scheduleItems" -> Len(defaultTodos)
                 [] k = "assignments" -> Len(defaultTodos) + Len(defaultSchedule)
                 [] k = "quickTasks" -> SeedLength
  IN IF i <= first THEN 0
     ELSE IF i >= first + SeedCount(k) THEN SeedCount(k)
     ELSE i - first

\* the rows of kind k that call c, if it is seeding user u, has inserted
Inserted(cs, c, k, u) ==
  IF cs[c].pc = "create" /\ cs[c].userId = u THEN Progress(k, cs[c].i) ELSE 0

\* the seedings of user u in flight
Seeding(cs, u) == {c \in Calls : cs[c].pc = "create" /\ cs[c].userId = u}

\* every seeding that passed the guard has inserted, or is inserting, its
\* own copy of the defaults
EachSeedingInserts(d, cs, sd) ==
  \A u \in Users, k \in Kinds :
    Cardinality(getMany(d[k], u)) =
      SeedCount(k) * (sd[u] - Cardinality(Seeding(cs, u)))
        + Inserted(cs, 1, k, u) + Inserted(cs, 2, k, u)

\* C12: seedUserData is not guarded against concurrent invocation.  A call
\* passes the guard exactly when the user owns no todo at the moment the
\* call reads the todos, whatever other call for the same user is in
\* flight; a call that has passed it performs each of its creates without
\* reading again, one more row of the user per create; so every call that
\* read before any todo was inserted adds its own full copy of the defaults,
\* and two such calls leave the user 22 todos, 40 schedule items and 6
\* assignments.
C12_SeedingRaces ==
  [][/\ \A c \in Calls :
          LET call == calls[c]
              u == call.userId
          IN /\ (call.pc = "getTodos" /\ calls'[c] # call) =>
                  /\ calls'[c].pc = "create" <=> ~HasTodos(u)
                  /\ db' = db
             /\ (call.pc = "create" /\ calls'[c] # call) =>
                  \A k \in Kinds :
                    Cardinality(getMany(db'[k], u)) =
                      Cardinality(getMany(db[k], u))
                        + IF k = kindAt(call.i + 1) THEN 1 ELSE 0
     /\ EachSeedingInserts(db', calls', seeded')]_vars

\* two calls for user A have both passed the guard and both returned: A has
\* the defaults twice
C12_Witness ==
  /\ \A c \in Calls : calls[c].pc = "idle"
  /\ seeded["A"] = 2
  /\ res.status = 200
  /\ Cardinality(getMany(db.todos, "A")) = 22
  /\ Cardinality(getMany(db.scheduleItems, "A")) = 40
  /\ Cardinality(getMany(db.assignments, "A")) = 6

\* a create of call c has thrown in this step
CreateThrew(c) ==
  calls[c].pc = "create" /\ calls'[c].pc = "idle" /\ res'.status = 500

\* the rows of user u are those of the first i creates of seedUserData
PartlySeeded(d, u, i) ==
  \A k \in Kinds : Cardinality(getMany(d[k], u)) = Progress(k, i)

\* C13 as claimed: a create of seedUserData that throws leaves the rows the
\* call has inserted, and no later seedUserData call for the same user
\* writes anything.
C13_LaterCallsWriteNothing ==
  [][\A c \in Calls :
       LET call == calls[c]
           u == call.userId
       IN /\ CreateThrew(c) => (db' = db /\ PartlySeeded(db', u, call.i))
          /\ (u \in failed /\ calls'[c] # call) => db' = db]_vars

\* C13: a create of seedUserData that throws leaves the rows the call has
\* inserted (no rollback).  A later call for the same user made while the
\* user owns a todo, as after any failure but one of the first create,
\* returns at the guard and writes nothing: the defaults that are there are
\* not inserted again, the missing ones are not inserted.  A later call made
\* while the user owns no todo, as after a failure of the first create,
\* which left no row, passes the guard and goes on to insert.
C13_PartialSeedStays ==
  [][\A c \in Calls :
       LET call == calls[c]
           u == call.userId
       IN /\ CreateThrew(c) =>
               /\ db' = db
               /\ PartlySeeded(db', u, call.i)
               /\ u \in failed'
          /\ (call.pc = "getTodos" /\ calls'[c] # call /\ u \in failed) =>
               IF HasTodos(u)
               THEN /\ db' = db
                    /\ calls'[c] = Idle
                    /\ res' = json(200, call.user)
               ELSE /\ PartlySeeded(db, u, 0)
                    /\ calls'[c].pc = "create"]_vars

\* the one seeding of user A threw at a schedule item, and a later call for
\* A has returned: A still has the 11 todos and some of the schedule items,
\* and no assignment
C13_Witness ==
  /\ "A" \in failed
  /\ seeded["A"] = 1
  /\ \A c \in Calls : calls[c].pc = "idle"
  /\ res = json(200, getUser(db, "A"))
  /\ Cardinality(getMany(db.todos, "A")) = 11
  /\ Cardinality(getMany(db.scheduleItems, "A")) \in 1..19
  /\ Cardinality(getMany(db.assignments, "A")) = 0

====
